---- MODULE Spec2Model ----
(***************************************************************************)
(* Model of opennet/scripts/tui.py: the menu loops (menu, host_menu,       *)
(* device_menu, advanced_menu), the leaf actions they dispatch to, the     *)
(* process runner and the Tor service controller.                          *)
(*                                                                         *)
(* Text is a sequence of glyphs.  A glyph is a one-character string, or a  *)
(* whole literal word of the program ("systemctl", "--server") that        *)
(* consists of shlex-safe, non-blank, lower-case characters only and is    *)
(* therefore treated by strip, lower and shlex.quote exactly like a single *)
(* safe character.                                                         *)
(*                                                                         *)
(* The program is single threaded.  Its position (pc) is the blocking call *)
(* it is waiting in: the gating prompt, a menu's selection prompt, a       *)
(* parameter prompt of a leaf action, or an external process invocation.   *)
(* One step of the model runs the code from one blocking call to the next. *)
(***************************************************************************)
EXTENDS Integers, Sequences, FiniteSets, TLC

VARIABLES
    env,        \* value of $OPENNET_BIN: {} when unset, {text} when set
    exists,     \* whether the resolved binary path exists at program start
    binary,     \* the path handed to menu()
    pc,         \* "start", "gate", "select", "prompt", "run", "exit"
    stack,      \* active menu loops, outermost first
    fn,         \* leaf action being executed ("none" when none is)
    inputs,     \* the action's argument / the lines its prompts have read
    invoked,    \* argument vectors handed to subprocess.run by this action
    results,    \* CommandResults that run() returned to this action
    ret,        \* <<r>> when the action returned r in the last step
    out,        \* what the last step printed, in order
    choice,     \* the line prompt() returned to the gate / the last menu loop
    event,      \* what the last step was
    term,       \* "running" or the way the program ended
    banner,     \* the banner has been printed
    gateReads,  \* number of times the continue/quit prompt has been read
    anyInvoked, \* some external process has been invoked since start
    typed       \* the lines input() returned to the action's prompts, unstripped

vars == <<env, exists, binary, pc, stack, fn, inputs, invoked, results, ret,
          out, choice, event, term, banner, gateReads, anyInvoked, typed>>

---------------------------------------------------------------------------
(* Bounds *)

\* process exit codes range over 0..MaxExit
MaxExit == 2

\* selection lines include all texts over PadGlyphs of at most this length
MaxKeyLen == 2

\* longest argument of a direct call of run
MaxArgLen == 2

---------------------------------------------------------------------------
(* Text helpers: str.strip, str.lower, str.startswith *)

W(s) == <<s>>

Whitespace == {" ", "\n", "\t"}

RECURSIVE lstrip(_)
lstrip(t) == IF t # <<>> /\ Head(t) \in Whitespace THEN lstrip(Tail(t)) ELSE t

RECURSIVE rstrip(_)
rstrip(t) ==
    IF t # <<>> /\ t[Len(t)] \in Whitespace
    THEN rstrip(SubSeq(t, 1, Len(t) - 1))
    ELSE t

strip(t) == rstrip(lstrip(t))

\* str.lower on the upper-case letters of the model's alphabet
lowerGlyph(g) ==
    CASE g = "B" -> "b"
      [] g = "Q" -> "q"
      [] g = "Y" -> "y"
      [] g = "N" -> "n"
      [] OTHER -> g

lower(t) == [i \in 1..Len(t) |-> lowerGlyph(t[i])]

startswith(t, p) == Len(t) >= Len(p) /\ SubSeq(t, 1, Len(p)) = p

RECURSIVE Concat(_)
Concat(ss) == IF ss = <<>> THEN <<>> ELSE Head(ss) \o Concat(Tail(ss))

Last(s) == s[Len(s)]

---------------------------------------------------------------------------
(* shlex.quote and the command text built by run() *)

\* characters outside shlex's safe set [A-Za-z0-9_@%+=:,./-]
UnsafeGlyphs == {" ", "\n", "\t", "\r", "'", "\"", "\\", "$", "*"}

\* a quoting that wraps the text but leaves a single quote inside as it is
quote_NoEscape(s) ==
    IF s = <<>> THEN <<"'", "'">>
    ELSE IF \A i \in 1..Len(s) : s[i] \notin UnsafeGlyphs THEN s
    ELSE <<"'">> \o s \o <<"'">>

quote(s) ==
    IF s = <<>> THEN <<"'", "'">>
    ELSE IF \A i \in 1..Len(s) : s[i] \notin UnsafeGlyphs THEN s
    ELSE <<"'">>
         \o Concat([i \in 1..Len(s) |->
                IF s[i] = "'" THEN <<"'", "\"", "'", "\"", "'">> ELSE <<s[i]>>])
         \o <<"'">>

RECURSIVE join(_, _)
join(sep, parts) ==
    IF parts = <<>> THEN <<>>
    ELSE IF Len(parts) = 1 THEN parts[1]
    ELSE parts[1] \o sep \o join(sep, Tail(parts))

CommandResult(command, stdout, stderr, returncode) ==
    [command |-> command, stdout |-> stdout, stderr |-> stderr,
     returncode |-> returncode]

\* run(cmd) when the process started and ended with output o
run(cmd, o) ==
    CommandResult(join(<<" ">>, [i \in 1..Len(cmd) |-> quote(cmd[i])]),
                  strip(o.stdout), strip(o.stderr), o.returncode)

---------------------------------------------------------------------------
(* Binary locator *)

\* Path(__file__).resolve().parent.parent / "opennet"
DEFAULT_BINARY == <<"/", "repo", "/", "opennet">>

\* values $OPENNET_BIN takes in the model
EnvValues == {<<>>, <<"/", "tmp", "/", "x">>}

\* pathlib.Path(text), for texts of at most one root slash and no "." or
\* empty components: trailing slashes are dropped, the empty text is "."
RECURSIVE Path(_)
Path(t) ==
    IF t = <<>> THEN <<".">>
    ELSE IF Len(t) > 1 /\ t[Len(t)] = "/" THEN Path(SubSeq(t, 1, Len(t) - 1))
    ELSE t

\* a locator that never looks at the environment
find_binary_IgnoresEnv(e) == DEFAULT_BINARY

find_binary(e) ==
    IF e # {} /\ (CHOOSE p \in e : TRUE) # <<>>
    THEN Path(CHOOSE p \in e : TRUE)
    ELSE DEFAULT_BINARY

\* the message of the FileNotFoundError raised by ensure_binary
NotFoundMessage(b) ==
    <<"OpenNET binary not found at ">> \o b
    \o <<". Build it with 'go build ./cmd/opennet' or set $OPENNET_BIN.">>

\* ensure_binary that returns the path without looking at the file system
ensure_binary_NoCheck(b, ex) == [raised |-> FALSE, message |-> <<>>]

\* ensure_binary(binary): the path, or the error it raises
ensure_binary(b, ex) ==
    IF ~ex
    THEN [raised |-> TRUE, message |-> NotFoundMessage(b)]
    ELSE [raised |-> FALSE, message |-> <<>>]

---------------------------------------------------------------------------
(* Prompts *)

\* prompt(msg): the line read from stdin, stripped
prompt(line) == strip(line)

\* a yes/no test that takes everything but a "no" for a yes
affirmative_NotNo(line) == ~startswith(lower(line), <<"n">>)

\* choice.startswith("y") of ask_yes_no, on the lowered line
affirmative(line) == startswith(lower(line), <<"y">>)

\* ask_yes_no(msg) when the user types `line`
ask_yes_no(line) == affirmative(prompt(line))

---------------------------------------------------------------------------
(* Leaf actions.  Each is given the lines its prompts have read so far     *)
(* (ins) and the results its invocations have returned so far (rs) and     *)
(* yields what the function does next: read a prompt, invoke a process,    *)
(* or return a result.                                                     *)

Prompt(msg) == [op |-> "prompt", msg |-> msg]
Run(cmd)    == [op |-> "run", cmd |-> cmd]
Return(r)   == [op |-> "return", result |-> r]

\* a function that reads n prompts and then returns run(cmd)
Simple(msgs, ins, rs, cmd) ==
    IF Len(ins) < Len(msgs) THEN Prompt(msgs[Len(ins) + 1])
    ELSE IF rs = <<>> THEN Run(cmd)
    ELSE Return(rs[1])

\* inputs padded so that a command can be written before all are read
Arg(ins, k) == IF k <= Len(ins) THEN ins[k] ELSE <<>>

list_servers(b, ins, rs) == Simple(<<>>, ins, rs, <<b, W("list-servers")>>)

genkey(b, ins, rs) == Simple(<<>>, ins, rs, <<b, W("genkey")>>)

show_server(b, ins, rs) ==
    Simple(<<"Server name: ">>, ins, rs,
           <<b, W("show"), W("server"), Arg(ins, 1)>>)

add_server(b, ins, rs) ==
    Simple(<<"Server name: ", "Endpoint (ip:port): ">>, ins, rs,
           <<b, W("add-server"), W("--name"), Arg(ins, 1),
             W("--endpoint"), Arg(ins, 2)>>)

delete_server(b, ins, rs) ==
    Simple(<<"Server name to delete: ">>, ins, rs,
           <<b, W("delete-server"), Arg(ins, 1)>>)

list_clients(b, ins, rs) ==
    Simple(<<"Server name: ">>, ins, rs,
           <<b, W("list-clients"), W("--server"), Arg(ins, 1)>>)

add_client(b, ins, rs) ==
    Simple(<<"Server name: ", "Client name: ">>, ins, rs,
           <<b, W("add-client"), W("--server"), Arg(ins, 1),
             W("--client"), Arg(ins, 2)>>)

export_client(b, ins, rs) ==
    Simple(<<"Server name: ", "Client name: ",
             "Output path (e.g., ~/client.conf): ">>, ins, rs,
           <<b, W("export-client"), W("--server"), Arg(ins, 1),
             W("--client"), Arg(ins, 2), W("--output"), Arg(ins, 3)>>)

start_server(b, ins, rs) ==
    Simple(<<"Server name: ">>, ins, rs, <<b, W("up"), Arg(ins, 1)>>)

stop_server(b, ins, rs) ==
    Simple(<<"Server name: ">>, ins, rs, <<b, W("down"), Arg(ins, 1)>>)

\* reload_server that brings the server up whatever `down` returned
reload_server_AlwaysUp(b, ins, rs) ==
    IF Len(ins) < 1 THEN Prompt("Server name: ")
    ELSE IF rs = <<>> THEN Run(<<b, W("down"), ins[1]>>)
    ELSE IF Len(rs) = 1 THEN Run(<<b, W("up"), ins[1]>>)
    ELSE Return(rs[2])

\* reload_server that reports the result of `down` after a successful reload
reload_server_ReturnsDown(b, ins, rs) ==
    IF Len(ins) < 1 THEN Prompt("Server name: ")
    ELSE IF rs = <<>> THEN Run(<<b, W("down"), ins[1]>>)
    ELSE IF rs[1].returncode # 0 THEN Return(rs[1])
    ELSE IF Len(rs) = 1 THEN Run(<<b, W("up"), ins[1]>>)
    ELSE Return(rs[1])

reload_server(b, ins, rs) ==
    IF Len(ins) < 1 THEN Prompt("Server name: ")
    ELSE IF rs = <<>> THEN Run(<<b, W("down"), ins[1]>>)
    ELSE IF rs[1].returncode # 0 THEN Return(rs[1])
    ELSE IF Len(rs) = 1 THEN Run(<<b, W("up"), ins[1]>>)
    ELSE Return(rs[2])

NinjaMessages ==
    <<"Server name: ", "Client name: ", "Use ninja mode (Tor)? [y/N]: ">>

\* a connect that passes the flag whatever the answer is
connect_client_AlwaysNinja(b, ins, rs) ==
    Simple(NinjaMessages, ins, rs,
           <<b, W("connect"), W("--server"), Arg(ins, 1),
             W("--client"), Arg(ins, 2), W("--ninja")>>)

connect_client(b, ins, rs) ==
    Simple(NinjaMessages, ins, rs,
           <<b, W("connect"), W("--server"), Arg(ins, 1),
             W("--client"), Arg(ins, 2)>>
           \o (IF affirmative(Arg(ins, 3)) THEN <<W("--ninja")>> ELSE <<>>))

disconnect_client(b, ins, rs) ==
    Simple(NinjaMessages, ins, rs,
           <<b, W("disconnect"), W("--server"), Arg(ins, 1),
             W("--client"), Arg(ins, 2)>>
           \o (IF affirmative(Arg(ins, 3)) THEN <<W("--ninja")>> ELSE <<>>))

---------------------------------------------------------------------------
(* Tor service controller *)

TorActions == {W("start"), W("stop"), W("reload"), W("status")}

\* a candidate list that tries the unit-suffixed name first
service_names_UnitFirst ==
    <<W("tor.service"), W("tor"), W("tor@default"), W("tor@default.service")>>

service_names ==
    <<W("tor"), W("tor.service"), W("tor@default"), W("tor@default.service")>>

hint == <<" (Tor may not be installed or systemctl may require sudo)">>

\* tor_service that goes through every candidate and returns the last result
tor_service_NoEarlyReturn(action, rs) ==
    IF action \notin TorActions
    THEN Return(CommandResult(<<>>, <<>>,
                              <<"Unsupported action ">> \o action, 1))
    ELSE IF Len(rs) < Len(service_names)
    THEN Run(<<W("systemctl"), action, service_names[Len(rs) + 1]>>)
    ELSE IF Last(rs).returncode = 0 THEN Return(Last(rs))
    ELSE Return(CommandResult(<<>>, Last(rs).stdout,
                              Last(rs).stderr \o hint, Last(rs).returncode))

\* tor_service that reports the first candidate's failure, not the last one's
tor_service_FirstFailure(action, rs) ==
    IF action \notin TorActions
    THEN Return(CommandResult(<<>>, <<>>,
                              <<"Unsupported action ">> \o action, 1))
    ELSE IF rs # <<>> /\ Last(rs).returncode = 0 THEN Return(Last(rs))
    ELSE IF Len(rs) < Len(service_names)
    THEN Run(<<W("systemctl"), action, service_names[Len(rs) + 1]>>)
    ELSE Return(CommandResult(<<>>, rs[1].stdout,
                              rs[1].stderr \o hint, rs[1].returncode))

\* tor_service that hands any action to systemctl
tor_service_NoValidation(action, rs) ==
    IF rs # <<>> /\ Last(rs).returncode = 0 THEN Return(Last(rs))
    ELSE IF Len(rs) < Len(service_names)
    THEN Run(<<W("systemctl"), action, service_names[Len(rs) + 1]>>)
    ELSE Return(CommandResult(<<>>, Last(rs).stdout,
                              Last(rs).stderr \o hint, Last(rs).returncode))

\* tor_service(action) after the invocations that returned rs
tor_service(action, rs) ==
    IF action \notin TorActions
    THEN Return(CommandResult(<<>>, <<>>,
                              <<"Unsupported action ">> \o action, 1))
    ELSE IF rs # <<>> /\ Last(rs).returncode = 0 THEN Return(Last(rs))
    ELSE IF Len(rs) < Len(service_names)
    THEN Run(<<W("systemctl"), action, service_names[Len(rs) + 1]>>)
    ELSE Return(CommandResult(<<>>,
                              IF rs # <<>> THEN Last(rs).stdout ELSE <<>>,
                              (IF rs # <<>> THEN Last(rs).stderr ELSE <<>>)
                                  \o hint,
                              IF rs # <<>> THEN Last(rs).returncode ELSE 1))

\* the lambdas of the three registries
Call(f, b, ins, rs) ==
    CASE f = "list_servers"      -> list_servers(b, ins, rs)
      [] f = "show_server"       -> show_server(b, ins, rs)
      [] f = "add_server"        -> add_server(b, ins, rs)
      [] f = "delete_server"     -> delete_server(b, ins, rs)
      [] f = "list_clients"      -> list_clients(b, ins, rs)
      [] f = "add_client"        -> add_client(b, ins, rs)
      [] f = "genkey"            -> genkey(b, ins, rs)
      [] f = "start_server"      -> start_server(b, ins, rs)
      [] f = "stop_server"       -> stop_server(b, ins, rs)
      [] f = "reload_server"     -> reload_server(b, ins, rs)
      [] f = "export_client"     -> export_client(b, ins, rs)
      [] f = "connect_client"    -> connect_client(b, ins, rs)
      [] f = "disconnect_client" -> disconnect_client(b, ins, rs)
      [] f = "tor_start"         -> tor_service(W("start"), rs)
      [] f = "tor_stop"          -> tor_service(W("stop"), rs)
      [] f = "tor_reload"        -> tor_service(W("reload"), rs)
      [] f = "tor_status"        -> tor_service(W("status"), rs)

---------------------------------------------------------------------------
(* Action registries: key, label, function ("None" for a None entry) *)

Entry(k, l, f) == [key |-> W(k), label |-> l, func |-> f]

advanced_actions ==
    << Entry("1", "List servers", "list_servers"),
       Entry("2", "Show server details", "show_server"),
       Entry("3", "Add server", "add_server"),
       Entry("4", "Delete server", "delete_server"),
       Entry("5", "List clients for server", "list_clients"),
       Entry("6", "Add client", "add_client"),
       Entry("7", "Generate key pair", "genkey"),
       Entry("b", "Back", "None") >>

host_actions ==
    << Entry("1", "Start server (up)", "start_server"),
       Entry("2", "Stop server (down)", "stop_server"),
       Entry("3", "Reload server (down/up)", "reload_server"),
       Entry("4", "Export client config", "export_client"),
       Entry("5", "Advanced options", "None"),
       Entry("b", "Back", "None") >>

device_actions ==
    << Entry("1", "Connect as client", "connect_client"),
       Entry("2", "Disconnect client", "disconnect_client"),
       Entry("3", "Start Tor (ninja mode)", "tor_start"),
       Entry("4", "Stop Tor", "tor_stop"),
       Entry("5", "Reload Tor", "tor_reload"),
       Entry("6", "Tor status", "tor_status"),
       Entry("b", "Back", "None") >>

\* actions.get(choice): <<entry>> or <<>> for None
get(actions, c) ==
    IF \E i \in 1..Len(actions) : actions[i].key = c
    THEN <<actions[CHOOSE i \in 1..Len(actions) : actions[i].key = c]>>
    ELSE <<>>

---------------------------------------------------------------------------
(* Printed output.  An output event has a kind k, a fixed string s and a   *)
(* text t.                                                                 *)

Ev(k, s, t) == [k |-> k, s |-> s, t |-> t]

Notice(s) == Ev("notice", s, <<>>)

print_banner == <<Ev("banner", "OpenNET by Majd Alzadjali", <<>>)>>

\* a presenter that shows stderr only for a failed command
print_result_StderrOnFailure(r) ==
    <<Ev("command", "\n$ ", r.command)>>
    \o (IF r.stdout # <<>> THEN <<Ev("stdout", "", r.stdout)>> ELSE <<>>)
    \o (IF r.stderr # <<>> /\ r.returncode # 0
        THEN <<Ev("stderr", "[stderr] ", r.stderr)>> ELSE <<>>)
    \o <<Ev("blank", "", <<>>)>>

print_result(r) ==
    <<Ev("command", "\n$ ", r.command)>>
    \o (IF r.stdout # <<>> THEN <<Ev("stdout", "", r.stdout)>> ELSE <<>>)
    \o (IF r.stderr # <<>> THEN <<Ev("stderr", "[stderr] ", r.stderr)>> ELSE <<>>)
    \o <<Ev("blank", "", <<>>)>>

\* the title line and the "key) label" lines of a registry
RenderRegistry(title, actions) ==
    <<Ev("title", title, <<>>)>>
    \o [i \in 1..Len(actions) |->
            Ev("option", actions[i].label, actions[i].key)]

RenderRoot ==
    << Ev("title", "\nChoose mode:", <<>>),
       Ev("option", "Host (run/manage server)", W("1")),
       Ev("option", "Run on current device (client)", W("2")),
       Ev("option", "Quit", W("q")) >>

\* what the loop of menu m prints before it blocks in its selection prompt
Render(m) ==
    CASE m = "Root"     -> RenderRoot
      [] m = "Host"     -> RenderRegistry("\nHost mode", host_actions)
      [] m = "Device"   -> RenderRegistry("\nRun on current device", device_actions)
      [] m = "Advanced" -> RenderRegistry("\nAdvanced", advanced_actions)

Top == stack[Len(stack)]

Pop(st) == SubSeq(st, 1, Len(st) - 1)

---------------------------------------------------------------------------
(* Inputs *)

KeyGlyphs ==
    {"1", "2", "3", "4", "5", "6", "7", "b", "B", "q", "Q", "x", " "}

RECURSIVE TextsUpTo(_, _)
TextsUpTo(G, n) ==
    IF n = 0 THEN {<<>>}
    ELSE LET S == TextsUpTo(G, n - 1)
         IN  S \cup {Append(t, g) : t \in S, g \in G}

\* glyphs of the longer selection lines: padding, a back key, a quit key
PadGlyphs == {" ", "b", "Q"}

\* lines typed at a selection prompt
KeyLines ==
    {<<g>> : g \in KeyGlyphs}
    \cup TextsUpTo(PadGlyphs, MaxKeyLen)
    \cup {<<" ", "5", "\n">>}

\* lines typed at a name / path / endpoint prompt
NameLines == {<<"s">>, <<" ", "a", " ", "b", "\n">>, <<>>}

\* lines typed at a yes/no prompt
AnswerLines == {<<"y">>, <<" ", "Y", "e", "s">>, <<"n">>, <<"o", "y">>, <<>>}

LinesFor(msg) ==
    IF msg = "Use ninja mode (Tor)? [y/N]: " THEN AnswerLines ELSE NameLines

\* what a process that ran to completion wrote and returned
ProcOutputs ==
    { [stdout |-> o.stdout, stderr |-> o.stderr, returncode |-> rc] :
        o \in { [stdout |-> <<"o", "\n">>, stderr |-> <<>>],
                [stdout |-> <<>>, stderr |-> <<" ", "e">>] },
        rc \in 0..MaxExit }

\* messages of the OSError subprocess.run raises when it cannot start cmd
StartFailures(cmd) ==
    { <<"[Errno 2] No such file or directory: ">> \o cmd[1],
      <<"[Errno 13] Permission denied: ">> \o cmd[1] }

EOFMessage == <<"EOF when reading a line">>

---------------------------------------------------------------------------
(* The state machine *)

Init ==
    /\ env \in {{}} \cup {{p} : p \in EnvValues}
    /\ exists \in BOOLEAN
    /\ binary = find_binary(env)
    /\ pc = "start"
    /\ stack = <<>>
    /\ fn = "none"
    /\ inputs = <<>>
    /\ invoked = <<>>
    /\ results = <<>>
    /\ ret = <<>>
    /\ out = <<>>
    /\ choice = <<>>
    /\ event = "init"
    /\ term = "running"
    /\ banner = FALSE
    /\ gateReads = 0
    /\ anyInvoked = FALSE
    /\ typed = <<>>

Static == UNCHANGED <<env, exists, binary>>

NoAction ==
    /\ fn' = "none"
    /\ inputs' = <<>>
    /\ invoked' = <<>>
    /\ results' = <<>>
    /\ ret' = <<>>
    /\ typed' = <<>>
    /\ UNCHANGED anyInvoked

\* the program ends in the way `how` after printing `printed`
Terminate(how, printed) ==
    /\ pc' = "exit"
    /\ stack' = <<>>
    /\ term' = how
    /\ out' = printed

\* menu(binary), up to the continue/quit prompt
Start ==
    /\ pc = "start"
    /\ LET e == ensure_binary(binary, exists)
       IN  IF e.raised
           THEN /\ Terminate("notfound", <<Ev("error", "", e.message)>>)
                /\ UNCHANGED banner
           ELSE /\ pc' = "gate"
                /\ out' = print_banner
                /\ banner' = TRUE
                /\ UNCHANGED <<stack, term>>
    /\ event' = "start"
    /\ NoAction
    /\ Static
    /\ UNCHANGED <<choice, gateReads>>

\* menu(binary): the answer to the continue/quit prompt
Gate ==
    /\ pc = "gate"
    /\ \E line \in AnswerLines :
          /\ choice' = prompt(line)
          /\ IF ask_yes_no(line)
             THEN /\ pc' = "select"
                  /\ stack' = <<"Root">>
                  /\ out' = Render("Root")
                  /\ UNCHANGED term
             ELSE Terminate("declined", <<Notice("Declined. Bye.")>>)
    /\ gateReads' = gateReads + 1
    /\ event' = "gate"
    /\ NoAction
    /\ Static
    /\ UNCHANGED banner

\* menu(binary): one iteration of the Root loop
RootSelect ==
    /\ pc = "select" /\ Top = "Root"
    /\ \E line \in KeyLines :
          LET c == lower(prompt(line))
          IN  /\ choice' = prompt(line)
              /\ IF c = W("1")
                 THEN /\ stack' = Append(stack, "Host")
                      /\ out' = Render("Host")
                      /\ UNCHANGED <<pc, term>>
                 ELSE IF c = W("2")
                 THEN /\ stack' = Append(stack, "Device")
                      /\ out' = Render("Device")
                      /\ UNCHANGED <<pc, term>>
                 ELSE IF c = W("q")
                 THEN Terminate("quit", <<Notice("Bye.")>>)
                 ELSE /\ out' = <<Notice("Invalid choice.\n")>> \o Render("Root")
                      /\ UNCHANGED <<pc, stack, term>>
    /\ event' = "select"
    /\ NoAction
    /\ Static
    /\ UNCHANGED <<banner, gateReads>>

\* what a sub-menu loop does with the line `c` read by its selection
\* prompt: leave the loop ("back" after the blank line of advanced_menu,
\* "return" for a None entry), enter the Advanced loop, report an invalid
\* choice, or call the entry's function
\* a lookup that leaves the loop on an unknown key
Lookup_UnknownLeaves(actions, c) ==
    LET a == get(actions, c)
    IN  IF a = <<>> THEN [op |-> "return"]
        ELSE IF a[1].func = "None" THEN [op |-> "return"]
        ELSE [op |-> "call", label |-> a[1].label, func |-> a[1].func]

Lookup(actions, c) ==
    LET a == get(actions, c)
    IN  IF a = <<>> THEN [op |-> "invalid"]
        ELSE IF a[1].func = "None" THEN [op |-> "return"]
        ELSE [op |-> "call", label |-> a[1].label, func |-> a[1].func]

\* a Host loop in which "5" is looked up like any other key and its entry
\* is bound to an action
host_menu_AdvancedBound(c) ==
    IF lower(c) = W("b") THEN [op |-> "return"]
    ELSE IF c = W("5")
    THEN [op |-> "call", label |-> "Advanced options", func |-> "list_servers"]
    ELSE IF get(host_actions, c) = <<>> THEN [op |-> "invalid"]
    ELSE [op |-> "call", label |-> get(host_actions, c)[1].label,
          func |-> get(host_actions, c)[1].func]

host_menu(c) ==
    IF lower(c) = W("b") THEN [op |-> "return"]
    ELSE IF c = W("5") THEN [op |-> "advanced"]
    ELSE Lookup(host_actions, c)

\* a Device loop that opens the Advanced loop on "5" as the Host loop does
device_menu_OpensAdvanced(c) ==
    IF lower(c) = W("b") THEN [op |-> "return"]
    ELSE IF c = W("5") THEN [op |-> "advanced"]
    ELSE Lookup(device_actions, c)

device_menu(c) ==
    IF lower(c) = W("b") THEN [op |-> "return"]
    ELSE Lookup(device_actions, c)

\* an Advanced loop that also takes "q" for Back
advanced_menu_QuitKey(c) ==
    IF lower(c) \in {W("b"), W("q")} THEN [op |-> "back"]
    ELSE IF get(advanced_actions, c) = <<>> THEN [op |-> "invalid"]
    ELSE IF get(advanced_actions, c)[1].func = "None" THEN [op |-> "return"]
    ELSE [op |-> "call", label |-> get(advanced_actions, c)[1].label,
          func |-> get(advanced_actions, c)[1].func]

advanced_menu(c) ==
    IF lower(c) = W("b") THEN [op |-> "back"]
    ELSE Lookup(advanced_actions, c)

\* run function f on from the point where its prompts have read `ins` and
\* its invocations have returned `rs`, up to its next blocking call or its
\* return into the loop (print_result, then the menu is rendered again)
Advance(f, ins, rs, pre) ==
    LET e == Call(f, binary, ins, rs)
    IN  /\ fn' = f
        /\ inputs' = ins
        /\ results' = rs
        /\ CASE e.op = "prompt" ->
                  /\ pc' = "prompt"
                  /\ ret' = <<>>
                  /\ out' = pre
                  /\ invoked' = (IF pc = "select" THEN <<>> ELSE invoked)
                  /\ UNCHANGED anyInvoked
             [] e.op = "run" ->
                  /\ pc' = "run"
                  /\ ret' = <<>>
                  /\ out' = pre
                  /\ invoked' =
                        Append(IF pc = "select" THEN <<>> ELSE invoked, e.cmd)
                  /\ anyInvoked' = TRUE
             [] e.op = "return" ->
                  /\ pc' = "select"
                  /\ ret' = <<e.result>>
                  /\ out' = pre \o print_result(e.result) \o Render(Top)
                  /\ invoked' = (IF pc = "select" THEN <<>> ELSE invoked)
                  /\ UNCHANGED anyInvoked
        /\ UNCHANGED <<stack, term>>

\* the body of a sub-menu loop after its selection prompt
MenuStep(d) ==
    CASE d.op \in {"back", "return"} ->
            /\ stack' = Pop(stack)
            /\ out' = (IF d.op = "back" THEN <<Ev("blank", "", <<>>)>> ELSE <<>>)
                      \o Render(Last(Pop(stack)))
            /\ NoAction
            /\ UNCHANGED <<pc, term>>
      [] d.op = "advanced" ->
            /\ stack' = Append(stack, "Advanced")
            /\ out' = Render("Advanced")
            /\ NoAction
            /\ UNCHANGED <<pc, term>>
      [] d.op = "invalid" ->
            /\ out' = <<Notice("Invalid choice.\n")>> \o Render(Top)
            /\ NoAction
            /\ UNCHANGED <<pc, stack, term>>
      [] d.op = "call" ->
            /\ Advance(d.func, <<>>, <<>>, <<Ev("label", d.label, <<>>)>>)
            /\ typed' = <<>>

\* host_menu(binary): one iteration that reads a choice
HostSelect ==
    /\ pc = "select" /\ Top = "Host"
    /\ \E line \in KeyLines :
          /\ choice' = prompt(line)
          /\ MenuStep(host_menu(prompt(line)))
    /\ event' = "select"
    /\ Static
    /\ UNCHANGED <<banner, gateReads>>

\* device_menu(binary): one iteration that reads a choice
DeviceSelect ==
    /\ pc = "select" /\ Top = "Device"
    /\ \E line \in KeyLines :
          /\ choice' = prompt(line)
          /\ MenuStep(device_menu(prompt(line)))
    /\ event' = "select"
    /\ Static
    /\ UNCHANGED <<banner, gateReads>>

\* advanced_menu(binary): one iteration that reads a choice
AdvancedSelect ==
    /\ pc = "select" /\ Top = "Advanced"
    /\ \E line \in KeyLines :
          /\ choice' = prompt(line)
          /\ MenuStep(advanced_menu(prompt(line)))
    /\ event' = "select"
    /\ Static
    /\ UNCHANGED <<banner, gateReads>>

\* a parameter prompt of the running action reads a line
ParamRead ==
    /\ pc = "prompt"
    /\ \E line \in LinesFor(Call(fn, binary, inputs, results).msg) :
          /\ Advance(fn, Append(inputs, prompt(line)), results, <<>>)
          /\ typed' = Append(typed, line)
    /\ event' = "param"
    /\ Static
    /\ UNCHANGED <<choice, banner, gateReads>>

\* the process the running action invoked ends
RunDone ==
    /\ pc = "run"
    /\ \E o \in ProcOutputs :
          Advance(fn, inputs, Append(results, run(Last(invoked), o)), <<>>)
    /\ event' = "run"
    /\ Static
    /\ UNCHANGED <<choice, banner, gateReads, typed>>

\* a try statement that starts after the action's prompts
InTry_RunOnly(p) == p = "run"

\* a try statement that ends before the action invokes a process
InTry_PromptOnly(p) == p = "prompt"

\* the blocking calls that lie inside the try statement of a sub-menu loop
InTry(p) == p \in {"prompt", "run"}

\* except KeyboardInterrupt
except_KeyboardInterrupt == <<Notice("\nCancelled.\n")>>

\* an except clause that prints nothing
except_Exception_Silent(msg) == <<>>

\* except Exception as exc
except_Exception(msg) == <<Ev("notice", "Error: ", msg)>>

\* the loop goes on to its next iteration after an except clause
Caught(printed) ==
    /\ pc' = "select"
    /\ out' = printed \o Render(Top)
    /\ ret' = <<>>
    /\ UNCHANGED <<stack, term, fn, inputs, invoked, results, anyInvoked, typed>>

\* the exception leaves every loop and menu(): the program ends
Uncaught(how) ==
    /\ Terminate(how, <<Ev("traceback", how, <<>>)>>)
    /\ NoAction

\* the user interrupts the program (Ctrl-C) while it is blocked
KeyboardInterrupt ==
    /\ pc \in {"gate", "select", "prompt", "run"}
    /\ IF InTry(pc)
       THEN Caught(except_KeyboardInterrupt)
       ELSE Uncaught("KeyboardInterrupt")
    /\ event' = "KeyboardInterrupt"
    /\ Static
    /\ UNCHANGED <<choice, banner, gateReads>>

\* input() raises EOFError
EndOfInput ==
    /\ pc \in {"gate", "select", "prompt"}
    /\ IF InTry(pc)
       THEN Caught(except_Exception(EOFMessage))
       ELSE Uncaught("EOFError")
    /\ event' = "EOFError"
    /\ Static
    /\ UNCHANGED <<choice, banner, gateReads>>

\* subprocess.run raises OSError: the executable could not be started
StartFailure ==
    /\ pc = "run"
    /\ \E msg \in StartFailures(Last(invoked)) :
          IF InTry(pc)
          THEN Caught(except_Exception(msg))
          ELSE Uncaught("OSError")
    /\ event' = "OSError"
    /\ Static
    /\ UNCHANGED <<choice, banner, gateReads>>

Next ==
    \/ Start
    \/ Gate
    \/ RootSelect
    \/ HostSelect
    \/ DeviceSelect
    \/ AdvancedSelect
    \/ ParamRead
    \/ RunDone
    \/ KeyboardInterrupt
    \/ EndOfInput
    \/ StartFailure

Spec == Init /\ [][Next]_vars

---------------------------------------------------------------------------
(* Direct calls of single functions, with arguments the menus never pass. *)
(* pc is "unit" before the call, "unit_run" while tor_service is blocked   *)
(* in an invocation, "returned" or "raised" after the call.                *)

InitUnit ==
    /\ env = {}
    /\ exists = TRUE
    /\ binary = DEFAULT_BINARY
    /\ pc = "unit"
    /\ stack = <<>>
    /\ fn = "none"
    /\ inputs = <<>>
    /\ invoked = <<>>
    /\ results = <<>>
    /\ ret = <<>>
    /\ out = <<>>
    /\ choice = <<>>
    /\ event = "init"
    /\ term = "running"
    /\ banner = FALSE
    /\ gateReads = 0
    /\ anyInvoked = FALSE
    /\ typed = <<>>

UnitFrame ==
    UNCHANGED <<exists, stack, choice, term, banner, gateReads, typed>>

\* actions tor_service is called with
UnitTorActions ==
    TorActions \cup {W("restart"), W("START"), <<>>, <<"start", " ">>}

\* tor_service(action) goes on after the invocations that returned rs
UnitTorAdvance(action, rs) ==
    LET e == tor_service(action, rs)
    IN  /\ fn' = "tor_service"
        /\ inputs' = <<action>>
        /\ results' = rs
        /\ IF e.op = "run"
           THEN /\ pc' = "unit_run"
                /\ invoked' = Append(invoked, e.cmd)
                /\ anyInvoked' = TRUE
                /\ ret' = <<>>
           ELSE /\ pc' = "returned"
                /\ ret' = <<e.result>>
                /\ UNCHANGED <<invoked, anyInvoked>>

\* tor_service(action) is called
UnitTorCall ==
    /\ pc = "unit"
    /\ \E action \in UnitTorActions : UnitTorAdvance(action, <<>>)
    /\ event' = "call"
    /\ UnitFrame
    /\ UNCHANGED <<env, binary, out>>

\* the systemctl process of the call ends
UnitTorRunDone ==
    /\ pc = "unit_run"
    /\ \E o \in ProcOutputs :
          UnitTorAdvance(inputs[1], Append(results, run(Last(invoked), o)))
    /\ event' = "run"
    /\ UnitFrame
    /\ UNCHANGED <<env, binary, out>>

\* systemctl cannot be started: run() raises out of tor_service
UnitTorRaise ==
    /\ pc = "unit_run"
    /\ pc' = "raised"
    /\ ret' = <<>>
    /\ event' = "OSError"
    /\ UnitFrame
    /\ UNCHANGED <<env, binary, out, fn, inputs, invoked, results, anyInvoked>>

\* results print_result is called with
UnitResults ==
    { CommandResult(c, o, e, rc) :
        c \in {<<>>, <<"systemctl", " ", "status", " ", "tor">>},
        o \in {<<>>, <<"o">>},
        e \in {<<>>, <<"e">>},
        rc \in 0..MaxExit }

\* print_result(r) is called
UnitPrintResult ==
    /\ pc = "unit"
    /\ \E r \in UnitResults :
          /\ ret' = <<r>>
          /\ out' = print_result(r)
    /\ fn' = "print_result"
    /\ pc' = "returned"
    /\ event' = "call"
    /\ UnitFrame
    /\ UNCHANGED <<env, binary, inputs, invoked, results, anyInvoked>>

\* values of $OPENNET_BIN find_binary is called under
UnitEnvValues ==
    { <<>>, <<" ">>, <<"/", "tmp", "/", "x">>, <<"/", "tmp", "/", "x", "/">>,
      <<"/", "my", " ", "bin">>, <<"opennet">>, DEFAULT_BINARY }

\* find_binary() is called, whatever there is in the file system
UnitFindBinary ==
    /\ pc = "unit"
    /\ \E e \in {{}} \cup {{p} : p \in UnitEnvValues} :
          /\ env' = e
          /\ binary' = find_binary(e)
    /\ exists' \in BOOLEAN
    /\ fn' = "find_binary"
    /\ pc' = "returned"
    /\ event' = "call"
    /\ UNCHANGED <<stack, choice, term, banner, gateReads, typed>>
    /\ UNCHANGED <<inputs, invoked, results, ret, out, anyInvoked>>

\* arguments run is called with
ArgGlyphs == {"a", " ", "'", "\"", "\\"}

UnitArgs == TextsUpTo(ArgGlyphs, MaxArgLen)

\* argument vectors run is called with; the program name is not empty, as
\* no process starts from an empty name
UnitArgvs ==
    { <<a>> : a \in UnitArgs \ {<<>>} }
        \cup { <<a, b>> : a \in UnitArgs \ {<<>>}, b \in UnitArgs }

\* run(cmd) is called and the process ends
UnitRun ==
    /\ pc = "unit"
    /\ \E cmd \in UnitArgvs, o \in ProcOutputs :
          /\ invoked' = <<cmd>>
          /\ results' = <<run(cmd, o)>>
          /\ ret' = <<run(cmd, o)>>
    /\ fn' = "run"
    /\ pc' = "returned"
    /\ event' = "run"
    /\ anyInvoked' = TRUE
    /\ UnitFrame
    /\ UNCHANGED <<env, binary, inputs, out>>

NextUnit ==
    \/ UnitTorCall
    \/ UnitTorRunDone
    \/ UnitTorRaise
    \/ UnitPrintResult
    \/ UnitFindBinary
    \/ UnitRun

SpecUnit == InitUnit /\ [][NextUnit]_vars

---------------------------------------------------------------------------
(* Properties *)

TorFns == {"tor_start", "tor_stop", "tor_reload", "tor_status"}

\* the action a registry entry of device_menu passes to tor_service
TorActionOf(f) ==
    CASE f = "tor_start"  -> W("start")
      [] f = "tor_stop"   -> W("stop")
      [] f = "tor_reload" -> W("reload")
      [] f = "tor_status" -> W("status")

\* the text of a command line: every argument quoted, joined by blanks
CommandText(cmd) == join(<<" ">>, [i \in 1..Len(cmd) |-> quote(cmd[i])])

\* C1: tor_service stops at the first candidate whose invocation exits 0.
\* If the first zero exit is at candidate k, exactly k invocations were made
\* (never more than four), the call has returned, and what it returned is the
\* k-th invocation's result unmodified: the command text of the k-th
\* argument vector, its stdout and stderr, and exit code 0.
C1_FirstSuccessWins ==
    fn \in TorFns =>
        /\ Len(invoked) <= 4
        /\ \A k \in 1..Len(results) :
              results[k].returncode = 0 =>
                  /\ \A j \in 1..(k - 1) : results[j].returncode # 0
                  /\ Len(invoked) = k
                  /\ Len(results) = k
                  /\ pc = "select"
                  /\ ret = <<results[k]>>
                  /\ ret[1].command = CommandText(invoked[k])
                  /\ ret[1].returncode = 0

\* a Tor action succeeded on the third of the four candidates
C1_Witness ==
    /\ fn \in TorFns
    /\ Len(results) = 3
    /\ results[1].returncode # 0
    /\ results[2].returncode # 0
    /\ results[3].returncode = 0
    /\ ret = <<results[3]>>

\* C2: when all four candidates exit non-zero, tor_service returns (it does
\* not raise) a synthesized result whose exit code is the 4th candidate's
\* exit code and whose stderr is the 4th candidate's stderr followed by the
\* hint, whatever the first three candidates returned.
C2_AllCandidatesFailed ==
    ( /\ fn \in TorFns
      /\ Len(results) = 4
      /\ \A k \in 1..4 : results[k].returncode # 0 )
    => /\ pc = "select"
       /\ event = "run"
       /\ Len(ret) = 1
       /\ ret[1].returncode = results[4].returncode
       /\ ret[1].stderr = results[4].stderr
                \o <<" (Tor may not be installed or systemctl may require sudo)">>
       /\ ret[1] # results[4]

\* all four candidates failed, the first differently from the last
C2_Witness ==
    /\ fn \in TorFns
    /\ Len(results) = 4
    /\ \A k \in 1..4 : results[k].returncode # 0
    /\ results[1].returncode # results[4].returncode
    /\ results[1].stderr # results[4].stderr
    /\ Len(ret) = 1

\* C3: in reload_server, when `down` returns a non-zero exit code, `up` is
\* never invoked (the only invocation of the action is `down`) and the
\* result reload returns is exactly the result of `down`.
C3_ReloadStopsAfterFailedDown ==
    ( /\ fn = "reload_server"
      /\ results # <<>>
      /\ results[1].returncode # 0 )
    => /\ invoked = << <<binary, W("down"), inputs[1]>> >>
       /\ Len(results) = 1
       /\ pc = "select"
       /\ ret = <<results[1]>>

\* `down` exited with code 2 in a reload
C3_Witness ==
    /\ fn = "reload_server"
    /\ Len(results) = 1
    /\ results[1].returncode = 2
    /\ ret = <<results[1]>>

\* C4: in reload_server, when `down` returns exit code 0, `up` is invoked
\* exactly once, after `down` has completed (nothing but `down` is invoked
\* before `down` has returned), and the result reload returns is the result
\* of `up`, whatever its exit code.
C4_ReloadRunsUpAfterDown ==
    fn = "reload_server" =>
        /\ results = <<>> =>
              \/ invoked = <<>>
              \/ /\ inputs # <<>>
                 /\ invoked = << <<binary, W("down"), inputs[1]>> >>
        /\ (results # <<>> /\ results[1].returncode = 0) =>
              /\ invoked = << <<binary, W("down"), inputs[1]>>,
                              <<binary, W("up"), inputs[1]>> >>
              /\ Len(results) <= 2
              /\ Len(results) = 2 => (pc = "select" /\ ret = <<results[2]>>)
              /\ ret # <<>> => ret = <<results[2]>>

\* a reload whose `down` succeeded and whose `up` failed
C4_Witness ==
    /\ fn = "reload_server"
    /\ Len(results) = 2
    /\ results[1].returncode = 0
    /\ results[2].returncode # 0
    /\ ret = <<results[2]>>

\* the keys a menu displays
OptionKeys(m) ==
    {Render(m)[i].t : i \in {j \in 1..Len(Render(m)) : Render(m)[j].k = "option"}}

\* a line no entry of menu m's registry is keyed by and that the loop of m
\* does not take for its back key (quit key in Root)
Unrecognised(m, c) ==
    /\ c \notin OptionKeys(m)
    /\ lower(c) # (IF m = "Root" THEN W("q") ELSE W("b"))

\* C5: in every menu state, a selection that matches no entry of that
\* state's registry and is not its back/quit key prints the invalid-choice
\* notice, invokes no process, leaves the menu state and the stack of
\* enclosing menus unchanged, does not end the program, and the same state's
\* full option list is rendered again before the next selection is read.
C5_UnknownKeySelfLoop ==
    [][ (pc = "select" /\ event' = "select" /\ Unrecognised(Top, choice')) =>
          /\ out' = <<Ev("notice", "Invalid choice.\n", <<>>)>> \o Render(Top)
          /\ stack' = stack
          /\ pc' = "select"
          /\ term' = "running"
          /\ fn' = "none"
          /\ invoked' = <<>>
          /\ anyInvoked' = anyInvoked ]_vars

\* "q" has just been refused by the Advanced menu
C5_Witness ==
    /\ event = "select"
    /\ pc = "select"
    /\ stack = <<"Root", "Host", "Advanced">>
    /\ choice = W("q")
    /\ out[1] = Ev("notice", "Invalid choice.\n", <<>>)

\* C6 as stated: an interruption in any prompt (selection, gating, parameter)
\* or invocation is caught, prints "Cancelled", does not end the program and
\* the active menu is displayed again.
C6_EveryInterruptCaught ==
    [][ event' = "KeyboardInterrupt" =>
          /\ term' = "running"
          /\ pc' = "select"
          /\ stack # <<>>
          /\ stack' = stack
          /\ out' = <<Ev("notice", "\nCancelled.\n", <<>>)>> \o Render(Top) ]_vars

\* C6, amended: an interruption while the program is blocked in a parameter
\* prompt of an action or in an external invocation is caught by the menu
\* loop, prints "Cancelled", returns nothing, and the menu that was active is
\* displayed again; an interruption while it is blocked in a menu's selection
\* prompt or in the gating prompt is not caught and ends the program.
C6_InterruptInAction ==
    [][ event' = "KeyboardInterrupt" =>
          IF pc \in {"prompt", "run"}
          THEN /\ term' = "running"
               /\ pc' = "select"
               /\ stack # <<>>
               /\ stack' = stack
               /\ ret' = <<>>
               /\ out' = <<Ev("notice", "\nCancelled.\n", <<>>)>> \o Render(Top)
          ELSE /\ pc \in {"gate", "select"}
               /\ pc' = "exit"
               /\ term' = "KeyboardInterrupt"
               /\ stack' = <<>> ]_vars

\* a reload was interrupted during its `up` invocation
C6_Witness ==
    /\ event = "KeyboardInterrupt"
    /\ pc = "select"
    /\ fn = "reload_server"
    /\ Len(invoked) = 2
    /\ Len(results) = 1
    /\ stack = <<"Root", "Host">>

\* C7: in the Host, Device and Advanced loops a failure other than an
\* interruption, raised while an action reads a parameter or invokes a
\* process (a process that cannot be started included), prints exactly one
\* "Error: <message>" notice, hands nothing to print_result, and leaves the
\* loop at its selection prompt in the same menu state.
C7_FailureContained ==
    [][ (event' \in {"EOFError", "OSError"} /\ pc \in {"prompt", "run"}) =>
          /\ Top \in {"Host", "Device", "Advanced"}
          /\ out'[1].k = "notice" /\ out'[1].s = "Error: " /\ out'[1].t # <<>>
          /\ Cardinality({i \in 1..Len(out') : out'[i].s = "Error: "}) = 1
          /\ \A i \in 1..Len(out') :
                out'[i].k \notin {"command", "stdout", "stderr"}
          /\ out' = <<out'[1]>> \o Render(Top)
          /\ ret' = <<>>
          /\ stack' = stack
          /\ pc' = "select"
          /\ term' = "running" ]_vars

\* systemctl could not be started for the second Tor candidate
C7_Witness ==
    /\ event = "OSError"
    /\ pc = "select"
    /\ fn \in TorFns
    /\ Len(invoked) = 2
    /\ stack = <<"Root", "Device">>
    /\ out[1].s = "Error: "

\* an answer whose first non-blank character is y or Y
SaysYes(c) == c # <<>> /\ c[1] \in {"y", "Y"}

\* C8: the banner is printed and then the continue/quit prompt is read
\* exactly once before Root is entered; Root is entered only on an
\* affirmative answer, and after any other answer the program ends at once:
\* nothing is rendered, no menu is entered, no process is invoked.
C8_GateBeforeRoot ==
    [][ /\ pc # "exit"
        /\ gateReads' <= 1
        /\ stack' # <<>> => (banner' /\ gateReads' = 1)
        /\ (stack = <<>> /\ stack' # <<>>) => event' = "gate"
        /\ event' = "gate" =>
              /\ banner
              /\ gateReads = 0 /\ gateReads' = 1
              /\ IF SaysYes(choice')
                 THEN /\ stack' = <<"Root">>
                      /\ pc' = "select"
                      /\ term' = "running"
                 ELSE /\ stack' = <<>>
                      /\ pc' = "exit"
                      /\ term' = "declined"
                      /\ \A i \in 1..Len(out') :
                            out'[i].k \notin {"title", "option"}
                      /\ ~anyInvoked' ]_vars

\* the program ended after an answer that is neither empty nor a yes
C8_Witness ==
    /\ event = "gate"
    /\ term = "declined"
    /\ pc = "exit"
    /\ choice = <<"o", "y">>

\* C9: when the binary path does not exist at program start, ensure_binary
\* fails with a message that carries the path and the remediation hint, the
\* message is printed and the session ends: no banner, no gating prompt, no
\* menu state, no process.  No menu state is entered unless the path exists.
C9_NoBinaryNoMenu ==
    /\ ~exists =>
          /\ pc \in {"start", "exit"}
          /\ ~banner
          /\ gateReads = 0
          /\ stack = <<>>
          /\ ~anyInvoked
          /\ pc = "exit" =>
                /\ term = "notfound"
                /\ Len(out) = 1
                /\ out[1].t = <<"OpenNET binary not found at ">> \o binary
                     \o <<". Build it with 'go build ./cmd/opennet' or set $OPENNET_BIN.">>
    /\ stack # <<>> => exists

\* the program ended because the path given in $OPENNET_BIN does not exist
C9_Witness ==
    /\ ~exists
    /\ env # {}
    /\ binary # DEFAULT_BINARY
    /\ pc = "exit"
    /\ term = "notfound"

\* the stack of menus after menu Last(st) has read the line c, when the back
\* and quit keys are compared exactly (ci = FALSE) or ignoring case
Transition(st, c, ci) ==
    LET m == st[Len(st)]
        k == IF ci THEN lower(c) ELSE c
    IN  CASE m = "Root" ->
                IF c = W("1") THEN <<"Root", "Host">>
                ELSE IF c = W("2") THEN <<"Root", "Device">>
                ELSE IF k = W("q") THEN <<>>
                ELSE st
          [] m = "Host" ->
                IF k = W("b") THEN <<"Root">>
                ELSE IF c = W("5") THEN <<"Root", "Host", "Advanced">>
                ELSE st
          [] m = "Device" ->
                IF k = W("b") THEN <<"Root">> ELSE st
          [] m = "Advanced" ->
                IF k = W("b") THEN <<"Root", "Host">> ELSE st

\* C10 as stated: the transitions are Root "1" -> Host, Root "2" -> Device,
\* Host "5" -> Advanced, "b" from Host/Device -> Root, "b" from Advanced ->
\* Host, "q" ends the program from Root only; no other input changes the
\* menu state.
C10_ExactTransitions ==
    [][ /\ (pc = "select" /\ event' = "select") =>
              /\ stack' = Transition(stack, choice', FALSE)
              /\ (pc' = "exit") = (Top = "Root" /\ choice' = W("q"))
        /\ event' \in {"param", "run"} => stack' = stack ]_vars

\* C10, amended: the same transitions, with the back key and the quit key
\* compared ignoring case: "B" acts as "b" and "Q" as "q"; no other line read
\* by a prompt changes the menu state.
C10_TransitionsIgnoringCase ==
    [][ /\ (pc = "select" /\ event' = "select") =>
              /\ stack' = Transition(stack, choice', TRUE)
              /\ (pc' = "exit") = (Top = "Root" /\ lower(choice') = W("q"))
              /\ (pc' = "exit") = (term' = "quit")
        /\ event' \in {"param", "run"} => stack' = stack ]_vars

\* "B" has just taken the Advanced menu back to Host
C10_Witness ==
    /\ event = "select"
    /\ choice = W("B")
    /\ stack = <<"Root", "Host">>
    /\ out[1].k = "blank"

\* C11: tor_service called with an action outside start, stop, reload and
\* status returns a synthesized result with empty command text, exit code 1
\* and a non-empty stderr, and invokes no process.
C11_UnsupportedAction ==
    ( /\ fn = "tor_service"
      /\ inputs[1] \notin {<<"start">>, <<"stop">>, <<"reload">>, <<"status">>} )
    => /\ pc = "returned"
       /\ invoked = <<>>
       /\ results = <<>>
       /\ ~anyInvoked
       /\ Len(ret) = 1
       /\ ret[1].command = <<>>
       /\ ret[1].returncode = 1
       /\ ret[1].stderr # <<>>

\* tor_service("restart") has returned
C11_Witness ==
    /\ fn = "tor_service"
    /\ inputs = <<W("restart")>>
    /\ pc = "returned"
    /\ Len(ret) = 1

\* C12: every result that reports the output and exit code of an actual
\* invocation (each result run() returned, each result an action returned
\* after invoking a process, each result handed to print_result) has as its
\* command text the quoted, blank-joined argument vector of the invocation
\* it came from.
C12_CommandTextIsArgv ==
    /\ \A i \in 1..Len(results) :
          results[i].command = CommandText(invoked[i])
    /\ (ret # <<>> /\ invoked # <<>>) =>
          /\ ret[1].command = CommandText(Last(invoked))
          /\ \A i \in 1..Len(out) :
                out[i].k = "command" => out[i].t = CommandText(Last(invoked))

\* the registry of a sub-menu
Registry(m) ==
    CASE m = "Host"     -> host_actions
      [] m = "Device"   -> device_actions
      [] m = "Advanced" -> advanced_actions

\* the keys of the entries of menu m whose action is None
StructuralKeys(m) ==
    {Registry(m)[i].key :
        i \in {j \in 1..Len(Registry(m)) : Registry(m)[j].func = "None"}}

\* the functions the executable entries of menu m are bound to
ExecutableFuncs(m) ==
    {Registry(m)[i].func :
        i \in {j \in 1..Len(Registry(m)) : Registry(m)[j].func # "None"}}

\* C13: an entry whose action is None ("b" in the three registries, "5" in
\* Host) is never invoked and never leads to a call of print_result;
\* print_result is called only with the result an executable entry of the
\* active menu has returned.
C13_StructuralNeverPresented ==
    [][ /\ ( /\ pc = "select"
             /\ event' = "select"
             /\ Top # "Root"
             /\ choice' \in StructuralKeys(Top) )
           => /\ fn' = "none"
              /\ invoked' = <<>>
              /\ ret' = <<>>
              /\ \A i \in 1..Len(out') : out'[i].k # "command"
        /\ (\E i \in 1..Len(out') : out'[i].k = "command")
           => /\ stack' # <<>>
              /\ stack'[Len(stack')] # "Root"
              /\ fn' \in ExecutableFuncs(stack'[Len(stack')])
              /\ Len(ret') = 1
              /\ out'[1].k = "command"
              /\ out'[1].t = ret'[1].command ]_vars

\* "5" has just taken Host to the Advanced menu without presenting anything
C13_Witness ==
    /\ event = "select"
    /\ choice = W("5")
    /\ stack = <<"Root", "Host", "Advanced">>
    /\ fn = "none"
    /\ \A i \in 1..Len(out) : out[i].k # "command"

\* C14: print_result prints, in this order, the command line after the
\* "$ " marker (always), the stdout block exactly when stdout is non-empty,
\* the "[stderr]" block exactly when stderr is non-empty, whatever the exit
\* code, and a blank line (always); the exit code is not printed.  With empty
\* stdout and stderr the output is the command line and the blank line.
C14_PresenterOutput ==
    fn = "print_result" =>
        /\ Len(out) = 2 + (IF ret[1].stdout # <<>> THEN 1 ELSE 0)
                        + (IF ret[1].stderr # <<>> THEN 1 ELSE 0)
        /\ out[1] = [k |-> "command", s |-> "\n$ ", t |-> ret[1].command]
        /\ out[Len(out)] = [k |-> "blank", s |-> "", t |-> <<>>]
        /\ (ret[1].stdout # <<>>) =
              (out[2] = [k |-> "stdout", s |-> "", t |-> ret[1].stdout])
        /\ (ret[1].stderr # <<>>) =
              (out[Len(out) - 1] =
                  [k |-> "stderr", s |-> "[stderr] ", t |-> ret[1].stderr])
        /\ \A i \in 1..Len(out) :
              out[i].k \in {"command", "stdout", "stderr", "blank"}

\* a successful command that wrote to stderr only has been presented
C14_Witness ==
    /\ fn = "print_result"
    /\ ret[1].returncode = 0
    /\ ret[1].stdout = <<>>
    /\ ret[1].stderr # <<>>
    /\ Len(out) = 3

\* the value of $OPENNET_BIN when it is set
EnvValue == CHOOSE p \in env : TRUE

\* C15 as stated: find_binary returns the override path whenever the
\* variable is set, for every value of it, and the default path only when
\* the variable is absent; it does not check that the path exists.
C15_OverrideWheneverSet ==
    fn = "find_binary" =>
        /\ pc = "returned"
        /\ env # {} => binary = Path(EnvValue)
        /\ binary = DEFAULT_BINARY => (env = {} \/ Path(EnvValue) = DEFAULT_BINARY)

\* C15, amended: find_binary returns the override path whenever the variable
\* is set to a non-empty value, whatever the default path is, and the default
\* path when the variable is absent or empty; it does not check that the
\* path exists (it returns the same path whether or not the file is there).
C15_OverrideWhenNonEmpty ==
    fn = "find_binary" =>
        /\ pc = "returned"
        /\ (env # {} /\ EnvValue # <<>>) => binary = Path(EnvValue)
        /\ (env = {} \/ EnvValue = <<>>) =>
              binary = <<"/", "repo", "/", "opennet">>

\* the override names a file that does not exist and is returned all the same
C15_Witness ==
    /\ fn = "find_binary"
    /\ env = {<<"/", "tmp", "/", "x">>}
    /\ binary = <<"/", "tmp", "/", "x">>
    /\ ~exists

\* shlex.split(text): POSIX rules, whitespace_split, no comment characters
ShlexWhitespace == {" ", "\t", "\r", "\n"}

ShlexQuotes == {"'", "\""}

Emit(acc, tok, quoted) ==
    IF tok # <<>> \/ quoted THEN Append(acc, tok) ELSE acc

RECURSIVE read_token(_, _, _, _, _, _)
read_token(t, state, escapedstate, tok, quoted, acc) ==
    IF t = <<>>
    THEN IF state \in ShlexQuotes \cup {"\\"}
         THEN [ok |-> FALSE, argv |-> <<>>]
         ELSE [ok |-> TRUE, argv |-> Emit(acc, tok, quoted)]
    ELSE LET c == Head(t)
             r == Tail(t)
         IN  IF state = " "
             THEN IF c \in ShlexWhitespace
                  THEN read_token(r, " ", escapedstate, tok, quoted, acc)
                  ELSE IF c = "\\"
                  THEN read_token(r, "\\", "a", tok, quoted, acc)
                  ELSE IF c \in ShlexQuotes
                  THEN read_token(r, c, escapedstate, tok, quoted, acc)
                  ELSE read_token(r, "a", escapedstate, <<c>>, quoted, acc)
             ELSE IF state \in ShlexQuotes
             THEN IF c = state
                  THEN read_token(r, "a", escapedstate, tok, TRUE, acc)
                  ELSE IF c = "\\" /\ state = "\""
                  THEN read_token(r, "\\", state, tok, TRUE, acc)
                  ELSE read_token(r, state, escapedstate, Append(tok, c),
                                  TRUE, acc)
             ELSE IF state = "\\"
             THEN read_token(r, escapedstate, escapedstate,
                             IF escapedstate \in ShlexQuotes /\ c # "\\"
                                    /\ c # escapedstate
                             THEN tok \o <<"\\", c>>
                             ELSE Append(tok, c),
                             quoted, acc)
             ELSE IF c \in ShlexWhitespace
                  THEN read_token(r, " ", escapedstate, <<>>, FALSE,
                                  Emit(acc, tok, quoted))
                  ELSE IF c \in ShlexQuotes
                  THEN read_token(r, c, escapedstate, tok, quoted, acc)
                  ELSE IF c = "\\"
                  THEN read_token(r, "\\", "a", tok, quoted, acc)
                  ELSE read_token(r, "a", escapedstate, Append(tok, c),
                                  quoted, acc)

shlex_split(text) == read_token(text, " ", "a", <<>>, FALSE, <<>>)

\* C16: for every argument vector passed to run, splitting the command text
\* of the result with shell-quoting rules gives back the argument vector:
\* as many arguments, each one identical, empty arguments and arguments
\* with spaces or quote characters included.
C16_RoundTrip ==
    fn = "run" =>
        /\ Len(results) = 1 /\ Len(invoked) = 1
        /\ shlex_split(results[1].command) = [ok |-> TRUE, argv |-> invoked[1]]

\* run was called with an argument made of the two quote characters and
\* an empty argument
C16_Witness ==
    /\ fn = "run"
    /\ invoked = << << <<"'", "\"">>, <<>> >> >>
    /\ results[1].command = <<"'", "'", "\"", "'", "\"", "'", "\"", "'", " ", "'", "'">>

\* the candidate service identifiers, in the order they are tried
TorCandidates == <<"tor", "tor.service", "tor@default", "tor@default.service">>

\* C17: within one tor_service call the service-manager invocations are a
\* prefix of the list tor, tor.service, tor@default, tor@default.service:
\* candidate i is invoked only after candidates 1..i-1 were each invoked
\* once and exited non-zero, none is invoked twice or skipped, and every
\* invocation carries the requested action.
C17_CandidatePrefix ==
    fn \in TorFns =>
        /\ Len(invoked) <= 4
        /\ Len(results) \in {Len(invoked) - 1, Len(invoked)}
        /\ \A i \in 1..Len(invoked) :
              /\ invoked[i] =
                    <<W("systemctl"), TorActionOf(fn), W(TorCandidates[i])>>
              /\ \A j \in 1..(i - 1) : results[j].returncode # 0

\* the fourth candidate has been invoked and its process has not ended yet
C17_Witness ==
    /\ fn = "tor_reload"
    /\ pc = "run"
    /\ Len(invoked) = 4
    /\ Len(results) = 3
    /\ invoked[4] = <<W("systemctl"), W("reload"), W("tor@default.service")>>

NinjaFns == {"connect_client", "disconnect_client"}

Blank == {" ", "\t", "\n", "\r"}

\* a line as entered, without the blanks at its two ends
Trimmed(line) ==
    LET I == {i \in 1..Len(line) : line[i] \notin Blank}
    IN  IF I = {} THEN <<>>
        ELSE SubSeq(line, CHOOSE i \in I : \A j \in I : i <= j,
                          CHOOSE i \in I : \A j \in I : i >= j)

\* C18: connect and disconnect invoke `<binary> connect|disconnect --server
\* <s> --client <c>`, with --ninja appended as the single last argument if
\* and only if the ninja-mode prompt was affirmed; any other answer gives the
\* vector without the flag; one invocation is made per execution, with the
\* server and client values as entered, trimmed of surrounding blanks only.
C18_NinjaArgv ==
    fn \in NinjaFns =>
        /\ Len(invoked) <= 1
        /\ Len(typed) < 3 => invoked = <<>>
        /\ ret # <<>> => Len(invoked) = 1
        /\ Len(invoked) = 1 =>
              /\ Len(typed) = 3
              /\ LET base == <<binary,
                               IF fn = "connect_client" THEN W("connect")
                               ELSE W("disconnect"),
                               W("--server"), Trimmed(typed[1]),
                               W("--client"), Trimmed(typed[2])>>
                 IN  invoked[1] = IF SaysYes(Trimmed(typed[3]))
                                  THEN base \o <<W("--ninja")>>
                                  ELSE base

\* connect ran without the flag after an answer that only contains a y, for
\* a server name entered with blanks around and inside it
C18_Witness ==
    /\ fn = "connect_client"
    /\ Len(typed) = 3 /\ Len(invoked) = 1
    /\ typed[1] = <<" ", "a", " ", "b", "\n">>
    /\ typed[3] = <<"o", "y">>
    /\ invoked[1] = <<binary, W("connect"), W("--server"), <<"a", " ", "b">>,
                      W("--client"), typed[2]>>
    /\ ret # <<>>

\* C19: the stack of active menu loops is always one of [Root], [Root, Host],
\* [Root, Device], [Root, Host, Advanced]: Advanced is never active without
\* Host beneath it, Device and Host are never active together, the depth is
\* at most three and no loop is entered twice.
C19_MenuStackShapes ==
    IF pc \in {"select", "prompt", "run"}
    THEN stack \in { <<"Root">>, <<"Root", "Host">>, <<"Root", "Device">>,
                     <<"Root", "Host", "Advanced">> }
    ELSE stack = <<>>

\* an action of the Advanced loop is running a process, three loops deep
C19_Witness ==
    /\ stack = <<"Root", "Host", "Advanced">>
    /\ pc = "run"
    /\ fn # "none"

\* C20: when the service manager cannot be started at candidate k of a
\* tor_service call, no later candidate is invoked and tor_service returns
\* nothing, neither a success nor the synthesized all-failed result; the
\* Device loop prints an "Error:" notice, presents no result and stays in
\* Device.
C20_LaunchFailureStopsTor ==
    [][ (event' = "OSError" /\ pc = "run" /\ fn \in TorFns) =>
          /\ fn' = fn
          /\ invoked' = invoked
          /\ results' = results
          /\ Len(results') = Len(invoked') - 1
          /\ ret' = <<>>
          /\ out'[1] = [k |-> "notice", s |-> "Error: ", t |-> out'[1].t]
          /\ \A i \in 1..Len(out') : out'[i].k # "command"
          /\ stack = <<"Root", "Device">>
          /\ stack' = <<"Root", "Device">>
          /\ pc' = "select" ]_vars

\* systemctl could not be started for the third Tor candidate, after the
\* first two had exited non-zero
C20_Witness ==
    /\ event = "OSError"
    /\ fn \in TorFns
    /\ Len(invoked) = 3
    /\ Len(results) = 2
    /\ ret = <<>>
    /\ pc = "select"
    /\ stack = <<"Root", "Device">>

====
